---- MODULE Spec2Model ----
(***************************************************************************)
(* Workflow orchestration subsystem of the monetizer repository:           *)
(* BaseOrchestrator (packages/orchestrator/src/base.ts), its three         *)
(* strategies and the parallel runner (packages/orchestrator/src/index.ts).*)
(*                                                                         *)
(* Conventions.                                                            *)
(*  - A JavaScript string is a sequence of tokens (TLA+ strings); the      *)
(*    tokens " ", ",", ";" and "\n" are the characters the code treats     *)
(*    specially (trim, split), every other token is opaque text.           *)
(*  - A confidence is an integer number of hundredths (0.35 is 35).        *)
(*  - A Date is modelled by whether the field is set (TRUE) or undefined.  *)
(*  - A JavaScript async function runs synchronously up to its first       *)
(*    await; every action below is one such synchronous stretch.           *)
(***************************************************************************)
EXTENDS Integers, Sequences, FiniteSets, TLC

\* ------------------------------------------------------------------ bounds
MaxReentries == 1
MaxLoops == 2
MaxDuplicates == 1
MaxDuration == 1
MaxSlowPhases == 5
MaxTypes == 2

\* ------------------------------------------------------- generic helpers
Undefined == "<undefined>"
Null == "<null>"

Min(a, b) == IF a < b THEN a ELSE b

RECURSIVE SumSeq(_)
SumSeq(s) == IF s = <<>> THEN 0 ELSE Head(s) + SumSeq(Tail(s))

RECURSIVE FlatMap(_)
FlatMap(ss) == IF ss = <<>> THEN <<>> ELSE Head(ss) \o FlatMap(Tail(ss))

Take(s, n) == SubSeq(s, 1, Min(n, Len(s)))

Range(s) == {s[i] : i \in 1..Len(s)}

\* const x = value; body(x): the value is computed once, before the body.
Const(value, body(_)) == CHOOSE y \in {body(x) : x \in {value}} : TRUE

\* ------------------------------------------------------ string functions
IsSpace(tok) == tok \in {" ", "\n"}
IsSeparator(tok) == tok \in {",", ";", "\n"}

RECURSIVE TrimStart(_)
TrimStart(s) ==
  IF s = <<>> THEN <<>>
  ELSE IF IsSpace(Head(s)) THEN TrimStart(Tail(s)) ELSE s

RECURSIVE TrimEnd(_)
TrimEnd(s) ==
  IF s = <<>> THEN <<>>
  ELSE IF IsSpace(s[Len(s)]) THEN TrimEnd(SubSeq(s, 1, Len(s) - 1)) ELSE s

Trim(s) == TrimEnd(TrimStart(s))

\* String.prototype.split(/[,;\n]/): the pieces between separators.
RECURSIVE SplitAcc(_, _)
SplitAcc(s, cur) ==
  IF s = <<>> THEN <<cur>>
  ELSE IF IsSeparator(Head(s)) THEN <<cur>> \o SplitAcc(Tail(s), <<>>)
  ELSE SplitAcc(Tail(s), Append(cur, Head(s)))

Split(s) == SplitAcc(s, <<>>)

\* Array.prototype.join(', ')
RECURSIVE Join(_)
Join(items) ==
  IF items = <<>> THEN <<>>
  ELSE IF Len(items) = 1 THEN items[1]
  ELSE items[1] \o <<",", " ">> \o Join(Tail(items))

NonEmptyItems(items) == SelectSeq(items, LAMBDA it : Len(it) > 0)

\* ------------------------------------------------------- analysis values
\* A field of AnalysisInput is undefined, an array of strings or a string
\* (the interface is open: [key: string]: unknown).
Undef == [kind |-> "undefined", items |-> <<>>, text |-> <<>>]
Arr(items) == [kind |-> "array", items |-> items, text |-> <<>>]
Str(text) == [kind |-> "string", items |-> <<>>, text |-> text]

\* analysis.x ?? fallback
Coalesce(v, fallback) == IF v.kind = "undefined" THEN fallback ELSE v

AnalysisFields ==
  {"findings", "risks", "opportunities", "monetizationIdeas", "techStack",
   "constraints", "audience", "competitors", "differentiators"}

\* The analysis argument itself may be missing (a falsy value).
NoAnalysis == [present |-> FALSE, fields |-> [f \in AnalysisFields |-> Undef]]
MkAnalysis(fields) == [present |-> TRUE, fields |-> fields]

\* toArray of normalizeAnalysis
toArray(value) ==
  IF value.kind = "array"
    THEN NonEmptyItems([i \in 1..Len(value.items) |-> Trim(value.items[i])])
  ELSE IF value.kind = "string"
    THEN LET parts == Split(value.text)
         IN NonEmptyItems([i \in 1..Len(parts) |-> Trim(parts[i])])
  ELSE <<>>

normalizeAnalysis(config, analysis) ==
  LET a == analysis.fields
  IN [ opportunities |-> toArray(a.opportunities),
       risks |-> toArray(Coalesce(a.risks, a.constraints)),
       monetizationIdeas |-> toArray(Coalesce(a.monetizationIdeas, a.opportunities)),
       techStack |-> toArray(a.techStack),
       constraints |-> toArray(a.constraints),
       audience |-> toArray(Coalesce(a.audience, config.targetAudience)),
       competitors |-> toArray(a.competitors),
       differentiators |-> toArray(Coalesce(a.differentiators, a.findings)) ]

\* ------------------------------------------------------------ confidence
informativeFields ==
  <<"findings", "opportunities", "monetizationIdeas", "techStack",
    "competitors", "audience">>

\* Contribution of one field, in halves (an array counts 1, a string 0.5).
SignalHalves(value) ==
  IF value.kind = "array" /\ Len(value.items) > 0 THEN 2
  ELSE IF value.kind = "string" /\ Len(Trim(value.text)) > 0 THEN 1
  ELSE 0

signalScore(analysis) ==
  SumSeq([i \in 1..Len(informativeFields) |->
            SignalHalves(analysis.fields[informativeFields[i]])])

\* The double computed by (signalScore / 6) * weight + 0.35 lies just below
\* the decimal tie x.xx5 for these <<weight, halves>>, so toFixed(2) rounds
\* it down; on every other tie the double lies on or above it.
DoubleBelowTie ==
  {<<90, 1>>, <<90, 3>>, <<90, 5>>, <<75, 2>>, <<75, 6>>, <<75, 10>>, <<85, 6>>}

\* weight in hundredths; the value is kept in units of 1/1200:
\* (halves / 12) * (weight / 100) + 0.35 = (halves * weight + 420) / 1200.
deriveConfidence(analysis, weight) ==
  LET halves == signalScore(analysis)
      normalized == Min(1200, halves * weight + 35 * 2 * Len(informativeFields))
  IN IF <<weight, halves>> \in DoubleBelowTie
       THEN (normalized + 5) \div 12
       ELSE (normalized + 6) \div 12

\* ---------------------------------------------------------------- phases
Strategies == {"developer-led", "speed-led", "research-led"}

\* definePhases: the phase names in declared order.
definePhases(type) ==
  CASE type = "developer-led" ->
         <<"code-audit", "testing-strategy", "security-review", "documentation",
           "monetization-planning", "implementation-roadmap">>
    [] type = "speed-led" ->
         <<"quick-assessment", "mvp-definition", "rapid-implementation", "launch-prep">>
    [] type = "research-led" ->
         <<"market-analysis", "competitor-mapping", "customer-research",
           "pricing-strategy", "go-to-market", "validation-plan">>

\* A literal string, and a template prefix followed by interpolated text.
Lit(text) == <<text>>
Num(n) == <<ToString(n)>>

\* x || fallback on strings: the empty string is falsy.
OrElse(s, fallback) == IF s = <<>> THEN fallback ELSE s

PhaseComputation(insights, recommendations, risks, confidence, artifacts) ==
  [insights |-> insights, recommendations |-> recommendations, risks |-> risks,
   confidence |-> confidence, hasArtifacts |-> artifacts # <<>>, artifacts |-> artifacts]

UnknownPhase == PhaseComputation(<<>>, <<>>, <<>>, 50, <<>>)

DeveloperLedExecutePhase(config, phase, analysis) ==
  LET normalized == normalizeAnalysis(config, analysis)
      baseConfidence == deriveConfidence(analysis, 90)
      addressed == Take(normalized.risks, 2)
  IN CASE phase = "code-audit" ->
            PhaseComputation(
              << Lit("Tech stack: ") \o OrElse(Join(normalized.techStack), Lit("Not specified")),
                 Lit("Found ") \o Num(Len(normalized.risks)) \o Lit(" potential technical risks") >>,
              << Lit("Establish code review process before monetization"),
                 Lit("Add static analysis and linting rules") >>
                \o [i \in 1..Len(addressed) |-> Lit("Address: ") \o addressed[i]],
              << Lit("Technical debt may slow feature development") >>,
              baseConfidence, <<>>)
       [] phase = "testing-strategy" ->
            PhaseComputation(
              << Lit("Test coverage is essential for API reliability") >>,
              << Lit("Implement unit tests with >80% coverage"),
                 Lit("Add integration tests for all API endpoints"),
                 Lit("Set up CI/CD with automated testing") >>,
              << Lit("Insufficient testing leads to reliability issues") >>,
              baseConfidence + 5, <<>>)
       [] phase = "security-review" ->
            PhaseComputation(
              << Lit("Security review required before handling payments") >>,
              << Lit("Implement authentication and authorization"),
                 Lit("Add rate limiting and input validation"),
                 Lit("Set up security headers and HTTPS") >>,
              << Lit("Security vulnerabilities can damage reputation") >>,
              baseConfidence, <<>>)
       [] phase = "documentation" ->
            PhaseComputation(
              << Lit("Good documentation reduces support burden") >>,
              << Lit("Create API reference documentation"),
                 Lit("Write getting-started guides"),
                 Lit("Add code examples and tutorials") >>,
              << Lit("Poor documentation increases churn") >>,
              baseConfidence, <<>>)
       [] phase = "monetization-planning" ->
            PhaseComputation(
              << Num(Len(normalized.monetizationIdeas)) \o Lit(" monetization opportunities identified") >>,
              << Lit("Create tiered API pricing structure"),
                 Lit("Build developer SDKs for major languages"),
                 Lit("Implement usage metering and billing") >>
                \o Take(normalized.monetizationIdeas, 2),
              << Lit("Complex pricing may deter early adopters") >>,
              baseConfidence, <<>>)
       [] phase = "implementation-roadmap" ->
            PhaseComputation(
              << Lit("Phased approach reduces risk") >>,
              << Lit("Phase 1: Core API + Basic auth (2 weeks)"),
                 Lit("Phase 2: Billing integration (1 week)"),
                 Lit("Phase 3: Developer portal (1 week)"),
                 Lit("Phase 4: SDK release (1 week)") >>,
              << Lit("Scope creep without clear milestones") >>,
              baseConfidence + 10,
              << Lit("roadmap.md"), Lit("milestones.json") >>)
       [] OTHER -> UnknownPhase

SpeedLedExecutePhase(config, phase, analysis) ==
  LET normalized == normalizeAnalysis(config, analysis)
      baseConfidence == deriveConfidence(analysis, 75)
  IN CASE phase = "quick-assessment" ->
            PhaseComputation(
              << Lit("Speed-first approach: ship in days, not weeks"),
                 Num(Len(normalized.opportunities)) \o Lit(" quick-win opportunities found") >>,
              << Lit("Focus on one revenue stream first"),
                 Lit("Skip non-essential features"),
                 Lit("Use existing services (Stripe, Auth0) vs building") >>,
              << Lit("Technical debt will accumulate"),
                 Lit("May need significant refactoring later") >>,
              baseConfidence, <<>>)
       [] phase = "mvp-definition" ->
            PhaseComputation(
              << Lit("MVP = smallest thing that generates revenue") >>,
              << Lit("Core feature + payment = MVP"),
                 Lit("Cut: advanced analytics, admin dashboard, multi-tenancy"),
                 Lit("Keep: basic auth, single payment tier, core functionality"),
                 IF Len(normalized.monetizationIdeas) > 0
                   THEN normalized.monetizationIdeas[1]
                   ELSE Lit("Start with simplest pricing") >>,
              << Lit("Over-scoping MVP delays launch") >>,
              baseConfidence + 10,
              << Lit("mvp-scope.md") >>)
       [] phase = "rapid-implementation" ->
            PhaseComputation(
              << Lit("Use shortcuts that can be replaced later") >>,
              << Lit("Day 1-2: Stripe Checkout integration"),
                 Lit("Day 3: Basic feature gating"),
                 Lit("Day 4: Landing page with pricing"),
                 Lit("Day 5: Soft launch to small audience") >>,
              << Lit("Bugs more likely without thorough testing"),
                 Lit("Customer support load may be high initially") >>,
              baseConfidence, <<>>)
       [] phase = "launch-prep" ->
            PhaseComputation(
              << Lit("Done is better than perfect") >>,
              << Lit("Set up basic error monitoring (Sentry)"),
                 Lit("Create simple support email"),
                 Lit("Prepare launch announcement"),
                 Lit("Have rollback plan ready") >>,
              << Lit("Post-launch issues without proper monitoring") >>,
              baseConfidence + 15,
              << Lit("launch-checklist.md"), Lit("rollback-plan.md") >>)
       [] OTHER -> UnknownPhase

ResearchLedExecutePhase(config, phase, analysis) ==
  LET normalized == normalizeAnalysis(config, analysis)
      baseConfidence == deriveConfidence(analysis, 85)
      analyzed == Take(normalized.competitors, 2)
  IN CASE phase = "market-analysis" ->
            PhaseComputation(
              << Lit("Market research reduces launch risk significantly"),
                 Lit("Target audience: ") \o OrElse(Join(normalized.audience), Lit("Needs definition")) >>,
              << Lit("Define TAM/SAM/SOM before pricing"),
                 Lit("Identify market trends and timing"),
                 Lit("Research regulatory requirements") >>,
              << Lit("Market may be smaller than assumed") >>,
              baseConfidence,
              << Lit("market-analysis.md") >>)
       [] phase = "competitor-mapping" ->
            PhaseComputation(
              << Num(Len(normalized.competitors)) \o Lit(" competitors identified"),
                 Lit("Differentiators: ") \o OrElse(Join(normalized.differentiators), Lit("Need to define")) >>,
              << Lit("Create feature comparison matrix"),
                 Lit("Identify gaps in competitor offerings"),
                 Lit("Study competitor pricing models") >>
                \o [i \in 1..Len(analyzed) |-> Lit("Analyze: ") \o analyzed[i]],
              << Lit("Well-funded competitors may respond aggressively") >>,
              baseConfidence,
              << Lit("competitor-matrix.xlsx") >>)
       [] phase = "customer-research" ->
            PhaseComputation(
              << Lit("Understanding WTP (willingness to pay) is critical") >>,
              << Lit("Conduct 5-10 customer discovery interviews"),
                 Lit("Create detailed customer personas"),
                 Lit("Map customer journey and pain points"),
                 Lit("Survey potential customers on pricing") >>,
              << Lit("Building for wrong customer segment") >>,
              baseConfidence - 5, <<>>)
       [] phase = "pricing-strategy" ->
            PhaseComputation(
              << Lit("Pricing is the #1 lever for revenue growth") >>,
              << Lit("Use value-based pricing, not cost-plus"),
                 Lit("Research competitor price points"),
                 Lit("Consider psychological pricing ($29 vs $30)"),
                 Lit("Plan for price increases over time") >>,
              << Lit("Pricing too low leaves money on table") >>,
              baseConfidence + 10,
              << Lit("pricing-model.xlsx") >>)
       [] phase = "go-to-market" ->
            PhaseComputation(
              << Lit("Distribution strategy is as important as product") >>,
              << Lit("Identify primary acquisition channels"),
                 Lit("Plan content marketing strategy"),
                 Lit("Consider partnerships and integrations"),
                 Lit("Set up attribution tracking") >>,
              << Lit("CAC may be higher than projected") >>,
              baseConfidence,
              << Lit("gtm-plan.md") >>)
       [] phase = "validation-plan" ->
            PhaseComputation(
              << Lit("Validate assumptions before scaling investment") >>,
              << Lit("Run landing page test to gauge interest"),
                 Lit("Offer pre-sales or waitlist"),
                 Lit("A/B test pricing page variations"),
                 Lit("Track conversion funnel metrics") >>,
              << Lit("Confirmation bias in interpreting results") >>,
              baseConfidence + 5,
              << Lit("experiment-plan.md"), Lit("metrics-dashboard.json") >>)
       [] OTHER -> UnknownPhase

\* Dispatch on the concrete subclass created by createOrchestrator.
executePhase(config, phase, analysis) ==
  CASE config.type = "developer-led" -> DeveloperLedExecutePhase(config, phase, analysis)
    [] config.type = "speed-led" -> SpeedLedExecutePhase(config, phase, analysis)
    [] config.type = "research-led" -> ResearchLedExecutePhase(config, phase, analysis)

createOrchestratorConfig(type) ==
  [type |-> type, projectName |-> Lit("project"), targetAudience |-> Undef]

\* ------------------------------------------------------ ordered key maps
\* A JavaScript object with string keys is an insertion-ordered map: a
\* sequence of entries with distinct keys.  Assigning an existing key
\* replaces the value in place, assigning a new key appends.
Keys(m) == [i \in 1..Len(m) |-> m[i].key]
Values(m) == [i \in 1..Len(m) |-> m[i].value]
HasKey(m, k) == \E i \in 1..Len(m) : m[i].key = k
Get(m, k) == m[CHOOSE i \in 1..Len(m) : m[i].key = k].value
Put(m, k, v) ==
  IF HasKey(m, k)
    THEN [i \in 1..Len(m) |-> IF m[i].key = k THEN [key |-> k, value |-> v] ELSE m[i]]
    ELSE Append(m, [key |-> k, value |-> v])

\* Variant: the list as it is, duplicates kept.
DedupKeepsAll(list) == list

\* Array.from(new Set(list)): first occurrences, in order.
Dedup(list) ==
  LET firsts == SelectSeq([i \in 1..Len(list) |-> i],
                          LAMBDA i : \A j \in 1..(i - 1) : list[j] # list[i])
  IN [n \in 1..Len(firsts) |-> list[firsts[n]]]

\* ------------------------------------------------------- workflow state
\* resetState, and the literal of the constructor.
FreshMetrics ==
  [startedAt |-> FALSE, completedAt |-> FALSE, pausedAt |-> FALSE,
   timeSpentMs |-> 0, phaseTimings |-> <<>>]

resetState(phases) ==
  [status |-> "idle", currentPhase |-> Null, completedPhases |-> <<>>,
   pendingPhases |-> phases, metrics |-> FreshMetrics, phaseResults |-> <<>>,
   error |-> Undefined]

\* One orchestrator instance: the fields of BaseOrchestrator and the
\* runFromPhase invocations suspended at their await (loops).  Three history
\* fields serve the properties: the number of executePhase invocations per
\* phase index since the last reset (invoked), whether pause() has
\* succeeded with no start() or resume() accepted since (pauseHeld), and
\* whether start() was accepted on the paused run (restarted).
constructor(config) ==
  LET phases == definePhases(config.type)
  IN [config |-> config, phases |-> phases, workflowState |-> resetState(phases),
      analysisSnapshot |-> NoAnalysis, loops |-> <<>>,
      invoked |-> [i \in 1..Len(phases) |-> 0], pauseHeld |-> FALSE,
      restarted |-> FALSE]

\* ------------------------------------------------------- result assembly
collectOrderedLists(ws, key) ==
  Const(Values(ws.phaseResults),
        LAMBDA results :
          Const(FlatMap([i \in 1..Len(results) |-> results[i][key]]),
                LAMBDA list : Dedup(list)))

collectHighlights(ws) ==
  Const(Values(ws.phaseResults),
        LAMBDA results :
          FlatMap([i \in 1..Len(results) |->
            [j \in 1..Len(results[i].insights) |->
               Lit(results[i].phase) \o Lit(": ") \o results[i].insights[j]]]))

summaryFromRecommendations(config, recommendations) ==
  IF Len(recommendations) = 0
    THEN Lit("Orchestrator ") \o config.projectName
           \o Lit(" completed with no recommendations generated.")
    ELSE LET remainder == Len(recommendations) - 1
             suffix == IF remainder > 0
                         THEN Lit(" and ") \o Num(remainder) \o Lit(" additional action item")
                                \o (IF remainder = 1 THEN <<>> ELSE Lit("s"))
                         ELSE <<>>
         IN config.projectName \o Lit(": prioritize \"") \o recommendations[1]
              \o Lit("\"") \o suffix \o Lit(".")

\* A string is truthy when it is defined and not empty.
Truthy(str) == str # Undefined /\ str # ""

resolveSummary(config, ws, recommendations) ==
  IF ws.status = "failed" /\ Truthy(ws.error)
    THEN config.projectName \o Lit(": workflow failed after ")
           \o Num(Len(ws.completedPhases)) \o Lit(" phase(s) - ") \o Lit(ws.error)
  ELSE IF ws.status = "paused"
    THEN config.projectName \o Lit(": paused after ")
           \o Num(Len(ws.completedPhases)) \o Lit(" phase(s)")
  ELSE summaryFromRecommendations(config, recommendations)

buildResult(o) ==
  LET ws == o.workflowState
  IN Const(collectOrderedLists(ws, "recommendations"),
           LAMBDA recommendations :
             [orchestrator |-> o.config.type, status |-> ws.status,
              summary |-> resolveSummary(o.config, ws, recommendations),
              highlights |-> collectHighlights(ws),
              recommendations |-> recommendations,
              risks |-> collectOrderedLists(ws, "risks"),
              metrics |-> ws.metrics, phaseResults |-> ws.phaseResults])

\* ------------------------------------------------- promises and throwing
\* What an executePhase invocation does besides returning: nothing, or it
\* throws a value (an Error with a message, or something that is no Error).
NoThrow == [thrown |-> FALSE, isError |-> FALSE, message |-> ""]
Thrown(isError, message) == [thrown |-> TRUE, isError |-> isError, message |-> message]
ThrowValues == {Thrown(TRUE, "boom"), Thrown(TRUE, ""), Thrown(FALSE, "boom")}

\* How the promise of a start or resume call stands after a synchronous
\* stretch: still pending, resolved with a WorkflowResult, or rejected.
NoResult == [status |-> "none"]
Pending == [kind |-> "pending", error |-> Undefined, result |-> NoResult]
Resolved(result) == [kind |-> "resolved", error |-> Undefined, result |-> result]
Rejected(message) == [kind |-> "rejected", error |-> message, result |-> NoResult]

AlreadyRunning == "Workflow already running"
CannotPause == "Cannot pause unless the workflow is running"
CannotResume == "Cannot resume unless the workflow is paused"
AnalysisRequired == "Analysis input required before starting the workflow"
UnknownFailure == "Unknown workflow failure encountered during execution"

\* ------------------------------------------------------------ runFromPhase
\* Variant: a catch block that rethrows instead of resolving.
catchPhaseErrorRethrows(o, error) ==
  LET failed == [o EXCEPT !.workflowState.status = "failed",
                          !.workflowState.error =
                             IF error.isError THEN error.message ELSE UnknownFailure]
  IN [o |-> failed, settle |-> Rejected(failed.workflowState.error)]

\* The catch block: fail the run and resolve with the partial result.
catchPhaseError(o, error) ==
  LET failed == [o EXCEPT !.workflowState.status = "failed",
                          !.workflowState.error =
                             IF error.isError THEN error.message ELSE UnknownFailure]
  IN [o |-> failed, settle |-> Resolved(buildResult(failed))]

\* Variant: the code after the loop without the transition to 'completed'.
afterLoopKeepsStatus(o) ==
  [o |-> o, settle |-> Resolved(buildResult(o))]

\* The code after the for loop.
afterLoop(o) ==
  LET done == IF o.workflowState.status = "running"
                THEN [o EXCEPT !.workflowState.status = "completed",
                               !.workflowState.metrics.completedAt = TRUE,
                               !.workflowState.currentPhase = Null,
                               !.workflowState.pendingPhases = <<>>]
                ELSE o
  IN [o |-> done, settle |-> Resolved(buildResult(done))]

\* The three executePhase implementations begin with normalizeAnalysis, which
\* reads analysis.metrics: on an undefined analysis that is a TypeError.
NoAnalysisTypeError == "Cannot read properties of undefined (reading 'metrics')"

\* The loop head at a (1-based) index, up to the await on executePhase:
\* leave the loop, or mark the phase current and invoke its executor.  The
\* executor's own failure is the rejection of the awaited value
\* (phaseRejected); only the missing analysis makes it throw at the call.
loopFrom(o, index, call) ==
  IF index <= Len(o.phases) /\ o.workflowState.status # "paused"
    THEN LET sync == IF o.analysisSnapshot.present THEN NoThrow ELSE Thrown(TRUE, NoAnalysisTypeError)
             entered == [o EXCEPT !.workflowState.currentPhase = o.phases[index],
                                  !.workflowState.pendingPhases =
                                     SubSeq(o.phases, index + 1, Len(o.phases)),
                                  !.invoked[index] = @ + 1]
         IN IF sync.thrown
              THEN catchPhaseError(entered, sync)
              ELSE [o |-> [entered EXCEPT !.loops =
                             Append(@, [index |-> index, call |-> call,
                                        analysis |-> o.analysisSnapshot])],
                    settle |-> Pending]
    ELSE afterLoop(o)

runFromPhase(o, startIndex, call) ==
  IF ~o.analysisSnapshot.present
    THEN [o |-> o, settle |-> Rejected(AnalysisRequired)]
    ELSE loopFrom(o, startIndex, call)

RemoveAt(s, i) == SubSeq(s, 1, i - 1) \o SubSeq(s, i + 1, Len(s))

\* The value that the executePhase invocation of loop l computes.
awaited(o, l) ==
  executePhase(o.config, o.phases[o.loops[l].index], o.loops[l].analysis)

\* The continuation of loop l when the awaited value rawResult arrives
\* after durationMs: record the phase, then go round the loop.
phaseFulfilled(o, l, rawResult, durationMs) ==
  LET loop == o.loops[l]
      phase == o.phases[loop.index]
      phaseResult == [phase |-> phase, durationMs |-> durationMs,
                      insights |-> rawResult.insights,
                      recommendations |-> rawResult.recommendations,
                      risks |-> rawResult.risks, confidence |-> rawResult.confidence,
                      hasArtifacts |-> rawResult.hasArtifacts,
                      artifacts |-> rawResult.artifacts]
      recorded == [o EXCEPT !.loops = RemoveAt(@, l),
                            !.workflowState.phaseResults = Put(@, phase, phaseResult),
                            !.workflowState.completedPhases = Append(@, phase),
                            !.workflowState.metrics.timeSpentMs = @ + durationMs,
                            !.workflowState.metrics.phaseTimings = Put(@, phase, durationMs)]
  IN loopFrom(recorded, loop.index + 1, loop.call)

\* The continuation of loop l when the awaited promise rejects.
phaseRejected(o, l, error) ==
  catchPhaseError([o EXCEPT !.loops = RemoveAt(@, l)], error)

\* ------------------------------------------------------ lifecycle methods
\* Variant: start without the 'already running' guard.
startUnguarded(o, analysis) ==
  LET fresh == IF o.workflowState.status \in {"completed", "failed"}
                 THEN [o EXCEPT !.workflowState = resetState(o.phases),
                                !.invoked = [i \in 1..Len(o.phases) |-> 0]]
                 ELSE o
      started == [fresh EXCEPT !.analysisSnapshot = analysis,
                               !.pauseHeld = FALSE,
                               !.restarted = (o.workflowState.status = "paused"),
                               !.workflowState.status = "running",
                               !.workflowState.metrics.startedAt = IF @ THEN @ ELSE TRUE]
  IN runFromPhase(started, Len(started.workflowState.completedPhases) + 1, "start")

start(o, analysis) ==
  IF o.workflowState.status = "running"
    THEN [o |-> o, settle |-> Rejected(AlreadyRunning)]
    ELSE LET fresh == IF o.workflowState.status \in {"completed", "failed"}
                        THEN [o EXCEPT !.workflowState = resetState(o.phases),
                                       !.invoked = [i \in 1..Len(o.phases) |-> 0]]
                        ELSE o
             started == [fresh EXCEPT !.analysisSnapshot = analysis,
                                      !.pauseHeld = FALSE,
                                      !.restarted = (o.workflowState.status = "paused"),
                                      !.workflowState.status = "running",
                                      !.workflowState.metrics.startedAt =
                                         IF @ THEN @ ELSE TRUE]
         IN runFromPhase(started, Len(started.workflowState.completedPhases) + 1,
                         "start")

\* Variant: pause without the status guard.
pauseUnguarded(o) ==
  [o |-> [o EXCEPT !.workflowState.status = "paused",
                   !.workflowState.metrics.pausedAt = TRUE,
                   !.pauseHeld = TRUE],
   settle |-> Resolved(NoResult)]

\* pause is synchronous: it returns or throws.
pause(o) ==
  IF o.workflowState.status # "running"
    THEN [o |-> o, settle |-> Rejected(CannotPause)]
    ELSE [o |-> [o EXCEPT !.workflowState.status = "paused",
                          !.workflowState.metrics.pausedAt = TRUE,
                          !.pauseHeld = TRUE],
          settle |-> Resolved(NoResult)]

resume(o) ==
  IF o.workflowState.status # "paused"
    THEN [o |-> o, settle |-> Rejected(CannotResume)]
    ELSE LET resumed == [o EXCEPT !.workflowState.status = "running",
                                  !.pauseHeld = FALSE]
         IN runFromPhase(resumed, Len(resumed.workflowState.completedPhases) + 1,
                         "resume")

\* ------------------------------------------------ runParallelOrchestrators
\* Mean confidence of a result as the pair sum / count; 0 / 0 is NaN, and
\* every comparison with NaN is false.
confidenceSum(result) ==
  LET results == Values(result.phaseResults)
  IN SumSeq([i \in 1..Len(results) |-> results[i].confidence])

IsNaN(result) == Len(result.phaseResults) = 0

avgGreater(a, b) ==
  /\ ~IsNaN(a)
  /\ ~IsNaN(b)
  /\ confidenceSum(a) * Len(b.phaseResults) > confidenceSum(b) * Len(a.phaseResults)

\* Variant: the comparison of fastest turned around.
RECURSIVE ReduceSlowest(_, _)
ReduceSlowest(a, rest) ==
  IF rest = <<>> THEN a
  ELSE ReduceSlowest(IF a.metrics.timeSpentMs > Head(rest).metrics.timeSpentMs
                       THEN a ELSE Head(rest),
                     Tail(rest))

\* results.reduce(f) without an initial value, on a non-empty array.
RECURSIVE ReduceFastest(_, _)
ReduceFastest(a, rest) ==
  IF rest = <<>> THEN a
  ELSE ReduceFastest(IF a.metrics.timeSpentMs < Head(rest).metrics.timeSpentMs
                       THEN a ELSE Head(rest),
                     Tail(rest))

RECURSIVE ReduceMostConfident(_, _)
ReduceMostConfident(a, rest) ==
  IF rest = <<>> THEN a
  ELSE ReduceMostConfident(IF avgGreater(a, Head(rest)) THEN a ELSE Head(rest),
                           Tail(rest))

ReduceOfEmpty == "Reduce of empty array with no initial value"

NoBatch ==
  [pc |-> "none", types |-> <<>>, analysis |-> NoAnalysis, promises |-> <<>>,
   results |-> <<>>, fastest |-> NoResult, mostConfident |-> NoResult,
   error |-> Undefined]

\* The body of runParallelOrchestrators after Promise.all has settled.
awaitAll(b) ==
  IF \E i \in 1..Len(b.promises) : b.promises[i].kind = "rejected"
    THEN LET first == CHOOSE i \in 1..Len(b.promises) :
                        /\ b.promises[i].kind = "rejected"
                        /\ \A j \in 1..(i - 1) : b.promises[j].kind # "rejected"
         IN [b EXCEPT !.pc = "rejected", !.error = b.promises[first].error]
  ELSE LET results == [i \in 1..Len(b.promises) |-> b.promises[i].result]
       IN IF results = <<>>
            THEN [b EXCEPT !.pc = "rejected", !.error = ReduceOfEmpty]
            ELSE [b EXCEPT !.pc = "resolved", !.results = results,
                           !.fastest = ReduceFastest(Head(results), Tail(results)),
                           !.mostConfident =
                              ReduceMostConfident(Head(results), Tail(results))]

\* ------------------------------------------------------ metrics collector
\* Numbers.  Times and counts are integers, a confidence is an integer number
\* of hundredths, NaN is an integer outside every range used, and a quotient
\* is an exact fraction <<numerator, denominator>> in lowest terms with a
\* positive denominator (floating-point rounding is not modelled).
NaN == -1000

Abs(n) == IF n < 0 THEN -n ELSE n

RECURSIVE GCD(_, _)
GCD(a, b) == IF b = 0 THEN a ELSE GCD(b, a % b)

Frac(n, d) ==
  LET g == GCD(Abs(n), Abs(d))
      sign == IF d < 0 THEN -1 ELSE 1
  IN << (sign * n) \div g, Abs(d) \div g >>

Whole(n) == << n, 1 >>
FracAdd(a, b) == Frac(a[1] * b[2] + b[1] * a[2], a[2] * b[2])
FracSub(a, b) == Frac(a[1] * b[2] - b[1] * a[2], a[2] * b[2])
FracMul(a, b) == Frac(a[1] * b[1], a[2] * b[2])
FracDiv(a, b) == Frac(a[1] * b[2], a[2] * b[1])
FracLess(a, b) == a[1] * b[2] < b[1] * a[2]
FracMin(a, b) == IF FracLess(b, a) THEN b ELSE a
FracMax(a, b) == IF FracLess(a, b) THEN b ELSE a

\* Variant: the number as it was given.
AsGiven(n) == n

\* Math.max(0, n) on a number that is not NaN.
AtLeastZero(n) == IF n < 0 THEN 0 ELSE n

clamp(value, min, max) ==
  IF value = NaN THEN min
  ELSE IF value < min THEN min ELSE IF value > max THEN max ELSE value

\* track: the event stored is a new object with the numbers brought into
\* range and the timestamp defaulted.
track(events, e) ==
  Append(events,
         [e EXCEPT !.timeSpentMs = AtLeastZero(e.timeSpentMs),
                   !.confidence = clamp(e.confidence, 0, 100),
                   !.recommendationsCount = AtLeastZero(e.recommendationsCount),
                   !.riskCount = AtLeastZero(e.riskCount),
                   !.timestamp = TRUE])

RECURSIVE trackAll(_, _)
trackAll(events, initialEvents) ==
  IF initialEvents = <<>> THEN events
  ELSE trackAll(track(events, Head(initialEvents)), Tail(initialEvents))

MetricsCollector(initialEvents) == [events |-> trackAll(<<>>, initialEvents)]

\* The Map of getMetrics: orchestrator name -> its events, in insertion order.
RECURSIVE groupEvents(_, _)
groupEvents(filtered, grouped) ==
  IF filtered = <<>> THEN grouped
  ELSE LET e == Head(filtered)
           existing == IF HasKey(grouped, e.orchestrator)
                         THEN Get(grouped, e.orchestrator) ELSE <<>>
       IN groupEvents(Tail(filtered), Put(grouped, e.orchestrator, Append(existing, e)))

Average(total, runs) == IF runs = 0 THEN Whole(0) ELSE Frac(total, runs)

\* Variant: only the totals, every average left at 0.
aggregateTotalsOnly(orchestratorName, orchestratorEvents) ==
  LET runs == Len(orchestratorEvents)
      Total(field) == SumSeq([i \in 1..runs |-> orchestratorEvents[i][field]])
  IN [orchestrator |-> orchestratorName,
      runs |-> runs,
      totalTimeMs |-> Total("timeSpentMs"),
      averageTimeMs |-> Whole(0),
      averageConfidence |-> Whole(0),
      totalRecommendations |-> Total("recommendationsCount"),
      averageRecommendations |-> Whole(0),
      totalRisks |-> Total("riskCount"),
      averageRisks |-> Whole(0)]

aggregate(orchestratorName, orchestratorEvents) ==
  LET runs == Len(orchestratorEvents)
      Total(field) == SumSeq([i \in 1..runs |-> orchestratorEvents[i][field]])
  IN [orchestrator |-> orchestratorName,
      runs |-> runs,
      totalTimeMs |-> Total("timeSpentMs"),
      averageTimeMs |-> Average(Total("timeSpentMs"), runs),
      averageConfidence |-> Average(Total("confidence"), runs),
      totalRecommendations |-> Total("recommendationsCount"),
      averageRecommendations |-> Average(Total("recommendationsCount"), runs),
      totalRisks |-> Total("riskCount"),
      averageRisks |-> Average(Total("riskCount"), runs)]

getMetrics(c, orchestrator) ==
  LET filtered == IF Truthy(orchestrator)
                    THEN SelectSeq(c.events, LAMBDA e : e.orchestrator = orchestrator)
                    ELSE c.events
      grouped == groupEvents(filtered, <<>>)
  IN [i \in 1..Len(grouped) |-> aggregate(grouped[i].key, grouped[i].value)]

\* ---------------------------------------------------------------- comparison
\* The weights, in tenths.
SCORE_WEIGHTS == [confidence |-> 4, recommendations |-> 3, time |-> 2, risks |-> 1]

\* Variant: a criterion without spread contributes nothing.
normalizeFlatAsZero(value, min, max, inverted) ==
  IF max = min THEN Whole(0)
  ELSE LET clamped == FracMin(FracMax(value, min), max)
           normalized == FracDiv(FracSub(clamped, min), FracSub(max, min))
       IN IF inverted THEN FracSub(Whole(1), normalized) ELSE normalized

normalize(value, min, max, inverted) ==
  IF max = min THEN Whole(1)
  ELSE LET clamped == FracMin(FracMax(value, min), max)
           normalized == FracDiv(FracSub(clamped, min), FracSub(max, min))
       IN IF inverted THEN FracSub(Whole(1), normalized) ELSE normalized

getRange(values) ==
  IF Len(values) = 0 THEN [min |-> Whole(0), max |-> Whole(0)]
  ELSE [min |-> CHOOSE v \in Range(values) : \A w \in Range(values) : ~FracLess(w, v),
        max |-> CHOOSE v \in Range(values) : \A w \in Range(values) : ~FracLess(v, w)]

\* Variant: ascending order.
RECURSIVE insertByScoreAscending(_, _)
insertByScoreAscending(sorted, x) ==
  IF sorted = <<>> THEN << x >>
  ELSE IF FracLess(x.score, Head(sorted).score) THEN << x >> \o sorted
  ELSE << Head(sorted) >> \o insertByScoreAscending(Tail(sorted), x)

\* Array.prototype.sort with (a, b) => b.score - a.score: descending and
\* stable.
RECURSIVE insertByScore(_, _)
insertByScore(sorted, x) ==
  IF sorted = <<>> THEN << x >>
  ELSE IF FracLess(Head(sorted).score, x.score) THEN << x >> \o sorted
  ELSE << Head(sorted) >> \o insertByScore(Tail(sorted), x)

RECURSIVE sortByScore(_, _)
sortByScore(sorted, rest) ==
  IF rest = <<>> THEN sorted
  ELSE sortByScore(insertByScore(sorted, Head(rest)), Tail(rest))

\* The reasoning text is kept as its parts: which sentence it is, and for
\* the winner's sentence the winner and the runner-up it names.
compareWorkflows(workflows) ==
  IF Len(workflows) = 0
    THEN [winner |-> Null, rankings |-> <<>>,
          reasoning |-> [text |-> "No workflow metrics available to compare.",
                         led |-> Null, next |-> Null]]
  ELSE
    LET Column(field) == [i \in 1..Len(workflows) |-> workflows[i][field]]
        timeRange == getRange(Column("averageTimeMs"))
        confidenceRange == getRange(Column("averageConfidence"))
        recommendationRange == getRange(Column("averageRecommendations"))
        riskRange == getRange(Column("averageRisks"))
        Weighted(weight, part) == FracMul(Frac(weight, 10), part)
        Score(metrics) ==
          FracAdd(
            FracAdd(
              FracAdd(
                Weighted(SCORE_WEIGHTS.confidence,
                         normalize(metrics.averageConfidence,
                                   confidenceRange.min, confidenceRange.max, FALSE)),
                Weighted(SCORE_WEIGHTS.recommendations,
                         normalize(metrics.averageRecommendations,
                                   recommendationRange.min, recommendationRange.max, FALSE))),
              Weighted(SCORE_WEIGHTS.time,
                       normalize(metrics.averageTimeMs, timeRange.min, timeRange.max, TRUE))),
            Weighted(SCORE_WEIGHTS.risks,
                     normalize(metrics.averageRisks, riskRange.min, riskRange.max, TRUE)))
        mapped == [i \in 1..Len(workflows) |->
                     [orchestrator |-> workflows[i].orchestrator,
                      score |-> Score(workflows[i]),
                      metrics |-> workflows[i]]]
    IN Const(sortByScore(<<>>, mapped),
             LAMBDA rankings :
               [winner |-> rankings[1].orchestrator,
                rankings |-> rankings,
                reasoning |-> [text |-> "led with",
                               led |-> rankings[1].orchestrator,
                               next |-> IF Len(rankings) > 1
                                          THEN rankings[2].orchestrator ELSE Null]])

compare(c) == compareWorkflows(getMetrics(c, Undefined))

\* ----------------------------------------------------------------- state
VARIABLES
  orchs,   \* the orchestrator instances, in creation order
  event,   \* the last call or continuation and how its promise stands
  batch,   \* the runParallelOrchestrators invocation, if any
  reentries, \* accepted start and resume calls made while a loop was suspended
  collector \* the MetricsCollector instance

vars == <<orchs, event, batch, reentries, collector>>

\* Wall-clock durations of a phase: Date.now() differences.
Durations == {0, MaxDuration}
LifecycleDurations == {MaxDuration}

EmptyAnalysis == MkAnalysis([f \in AnalysisFields |-> Undef])

RichAnalysis ==
  MkAnalysis(
    [findings |-> Arr(<< Lit("open core") >>),
     risks |-> Arr(<< Lit("vendor lock-in"), Lit("churn"), Lit("compliance") >>),
     opportunities |-> Arr(<< Lit("SaaS pricing") >>),
     monetizationIdeas |-> Arr(<< Lit("Focus on one revenue stream first"),
                                  Lit("Create tiered API pricing structure") >>),
     techStack |-> Arr(<< Lit("TypeScript") >>),
     constraints |-> Undef,
     audience |-> Str(<< "developers", ",", " ", "founders" >>),
     competitors |-> Arr(<< Lit("acme"), Lit("acme") >>),
     differentiators |-> Undef])

Analyses == {NoAnalysis, RichAnalysis}

Event(op, orch, settle, thrown) ==
  [op |-> op, orch |-> orch, settle |-> settle, thrown |-> thrown]

\* A settled start promise of a batch member is noted for Promise.all.
notePromise(b, o, call, settle) ==
  IF b.pc = "awaiting" /\ call = "start" /\ settle.kind # "pending"
    THEN [b EXCEPT !.promises[o] = settle]
    ELSE b

\* ---------------------------------------------------------------- actions
\* The strategies whose lifecycle is explored under every interleaving of
\* calls; the four-phase one keeps that exploration finite in practice.
LifecycleTypes == {"speed-led"}

\* The type lists handed to runParallelOrchestrators.
BatchTypes == UNION {[1..n -> LifecycleTypes] : n \in 0..MaxTypes}

\* Either one orchestrator has been constructed by the caller, or none has
\* and runParallelOrchestrators is about to construct its own.
Init ==
  /\ orchs \in {<<>>} \cup {<< constructor(createOrchestratorConfig(type)) >> :
                              type \in LifecycleTypes}
  /\ event = Event("new", 0, Pending, NoThrow)
  /\ batch = NoBatch
  /\ reentries = 0
  /\ collector = MetricsCollector(<<>>)

\* Bounds of the exploration.  Of a run: its cumulative time (so many
\* phases of the longest duration), the phase names recorded twice, the
\* loops suspended at once.  Of a behaviour: the calls that enter runFromPhase while an
\* earlier invocation of it is still suspended at its await.
Duplicates(o) ==
  Len(o.workflowState.completedPhases) - Cardinality(Range(o.workflowState.completedPhases))

WithinBounds(o) ==
  /\ o.workflowState.metrics.timeSpentMs <= MaxSlowPhases * MaxDuration
  /\ Duplicates(o) <= MaxDuplicates
  /\ Len(o.loops) <= MaxLoops

Reenters(o, r) ==
  IF r.settle.kind # "rejected" /\ o.loops # <<>> THEN 1 ELSE 0

Start(o, analysis) ==
  \E r \in {start(orchs[o], analysis)} :
     /\ batch.pc = "none"
     /\ reentries + Reenters(orchs[o], r) <= MaxReentries
     /\ WithinBounds(r.o)
     /\ orchs' = [orchs EXCEPT ![o] = r.o]
     /\ event' = Event("start", o, r.settle, NoThrow)
     /\ reentries' = reentries + Reenters(orchs[o], r)
     /\ UNCHANGED collector
     /\ UNCHANGED batch

Pause(o) ==
  \E r \in {pause(orchs[o])} :
     /\ batch.pc = "none"
     /\ orchs' = [orchs EXCEPT ![o] = r.o]
     /\ event' = Event("pause", o, r.settle, NoThrow)
     /\ UNCHANGED <<batch, reentries>>
     /\ UNCHANGED collector

Resume(o) ==
  \E r \in {resume(orchs[o])} :
     /\ batch.pc = "none"
     /\ reentries + Reenters(orchs[o], r) <= MaxReentries
     /\ WithinBounds(r.o)
     /\ orchs' = [orchs EXCEPT ![o] = r.o]
     /\ event' = Event("resume", o, r.settle, NoThrow)
     /\ reentries' = reentries + Reenters(orchs[o], r)
     /\ UNCHANGED collector
     /\ UNCHANGED batch

\* Variant: one phaseResults map shared by all the instances.
PhaseFulfilledShared(o, l, durationMs) ==
  \E rawResult \in {awaited(orchs[o], l)} :
  \E r \in {phaseFulfilled(orchs[o], l, rawResult, durationMs)} :
     /\ WithinBounds(r.o)
     /\ orchs' = [p \in DOMAIN orchs |->
                    IF p = o THEN r.o
                    ELSE [orchs[p] EXCEPT !.workflowState.phaseResults =
                                             r.o.workflowState.phaseResults]]
     /\ event' = Event("fulfilled", o, r.settle, NoThrow)
     /\ batch' = notePromise(batch, o, orchs[o].loops[l].call, r.settle)
     /\ UNCHANGED reentries
     /\ UNCHANGED collector

PhaseFulfilled(o, l, durationMs) ==
  \E rawResult \in {awaited(orchs[o], l)} :
  \E r \in {phaseFulfilled(orchs[o], l, rawResult, durationMs)} :
     /\ WithinBounds(r.o)
     /\ orchs' = [orchs EXCEPT ![o] = r.o]
     /\ event' = Event("fulfilled", o, r.settle, NoThrow)
     /\ batch' = notePromise(batch, o, orchs[o].loops[l].call, r.settle)
     /\ UNCHANGED reentries
     /\ UNCHANGED collector

PhaseRejected(o, l, error) ==
  \E r \in {phaseRejected(orchs[o], l, error)} :
     /\ orchs' = [orchs EXCEPT ![o] = r.o]
     /\ event' = Event("rejected", o, r.settle, error)
     /\ batch' = notePromise(batch, o, orchs[o].loops[l].call, r.settle)
     /\ UNCHANGED reentries
     /\ UNCHANGED collector

\* runParallelOrchestrators up to its await: construct one orchestrator per
\* type and call start on each, in order.  The orchestrators stay local to
\* the function, so no caller pauses, resumes or restarts them.
RunParallel(types, analysis) ==
  LET started == [i \in 1..Len(types) |->
                    start(constructor(createOrchestratorConfig(types[i])), analysis)]
  IN /\ orchs = <<>>
     /\ batch.pc = "none"
     /\ orchs' = [i \in 1..Len(types) |-> started[i].o]
     /\ batch' = [NoBatch EXCEPT !.pc = "awaiting", !.types = types,
                                 !.analysis = analysis,
                                 !.promises = [i \in 1..Len(types) |-> started[i].settle]]
     /\ event' = Event("runParallel", 0, Pending, NoThrow)
     /\ UNCHANGED reentries
     /\ UNCHANGED collector

\* Promise.all has settled: one start promise rejected, or all resolved.
AwaitAll ==
  /\ batch.pc = "awaiting"
  /\ \/ \E i \in DOMAIN batch.promises : batch.promises[i].kind = "rejected"
     \/ \A i \in DOMAIN batch.promises : batch.promises[i].kind = "resolved"
  /\ batch' = awaitAll(batch)
  /\ event' = Event("awaitAll", 0,
                    IF batch'.pc = "rejected" THEN Rejected(batch'.error)
                                              ELSE Resolved(NoResult),
                    NoThrow)
  /\ UNCHANGED <<orchs, reentries>>
  /\ UNCHANGED collector

Lifecycle ==
  \E o \in DOMAIN orchs :
    \/ \E analysis \in Analyses : Start(o, analysis)
    \/ Pause(o)
    \/ Resume(o)

Settle ==
  \E o \in DOMAIN orchs, l \in 1..MaxLoops :
    /\ l \in DOMAIN orchs[o].loops
    /\ \/ \E durationMs \in LifecycleDurations : PhaseFulfilled(o, l, durationMs)
       \/ \E error \in ThrowValues : PhaseRejected(o, l, error)

Parallel ==
  \/ \E types \in BatchTypes, analysis \in Analyses : RunParallel(types, analysis)
  \/ AwaitAll

Next == Lifecycle \/ Settle \/ Parallel

Spec == Init /\ [][Next]_vars

\* Runs whose executors all return and on which pause() is never called,
\* for each strategy: start and resume may be called at any time, and every
\* awaited executePhase promise is fulfilled (the executors are async
\* functions without awaits of their own, and the event loop runs the
\* continuation of a fulfilled promise).
RunInit ==
  /\ orchs \in {<< constructor(createOrchestratorConfig(type)) >> : type \in Strategies}
  /\ event = Event("new", 0, Pending, NoThrow)
  /\ batch = NoBatch
  /\ reentries = 0
  /\ collector = MetricsCollector(<<>>)

Returns ==
  \E o \in DOMAIN orchs, l \in 1..MaxLoops, durationMs \in Durations :
    /\ l \in DOMAIN orchs[o].loops
    /\ PhaseFulfilled(o, l, durationMs)

RunNext ==
  \/ \E o \in DOMAIN orchs, analysis \in Analyses : Start(o, analysis)
  \/ \E o \in DOMAIN orchs : Resume(o)
  \/ Returns

RunSpec == RunInit /\ [][RunNext]_vars /\ WF_vars(Returns)

\* One uninterrupted run of each strategy on each analysis of a family that
\* leaves every informative field undefined, a non-empty array or a
\* non-blank string, and on the analysis with every field populated.
FieldShapes == {Undef, Arr(<< Lit("x") >>), Str(<< "x" >>)}

ConfidenceAnalyses ==
  {MkAnalysis([f \in AnalysisFields |->
                 IF f \in Range(informativeFields) THEN shape[f] ELSE Undef]) :
     shape \in [Range(informativeFields) -> FieldShapes]}
  \cup {RichAnalysis,
        MkAnalysis([f \in AnalysisFields |-> Arr(<< Lit("x"), Lit("y") >>)])}

FirstStart(o, analysis) ==
  /\ orchs[o].workflowState.status = "idle"
  /\ Start(o, analysis)

PhaseNext ==
  \/ \E o \in DOMAIN orchs, analysis \in ConfidenceAnalyses : FirstStart(o, analysis)
  \/ \E o \in DOMAIN orchs, l \in 1..MaxLoops, durationMs \in LifecycleDurations :
       /\ l \in DOMAIN orchs[o].loops
       /\ PhaseFulfilled(o, l, durationMs)

PhaseSpec == RunInit /\ [][PhaseNext]_vars

\* ------------------------------------------- the picks of a settled batch
\* The two reductions of runParallelOrchestrators applied to the results that
\* Promise.all can deliver: up to MaxResults WorkflowResults, each with a
\* cumulative time and the confidences of the phase results it stores (none
\* for a run that failed in its first phase).
MaxResults == 3
MaxTimeSpent == 2

StoredConfidences == {<<>>, <<35>>, <<100>>, <<35, 100>>}

ResultWith(status, timeSpentMs, confidences) ==
  [status |-> status,
   metrics |-> [FreshMetrics EXCEPT !.timeSpentMs = timeSpentMs],
   phaseResults |-> [i \in 1..Len(confidences) |->
                       [key |-> definePhases("speed-led")[i],
                        value |-> [phase |-> definePhases("speed-led")[i],
                                   confidence |-> confidences[i]]]]]

BatchResults ==
  {ResultWith(IF confidences = <<>> THEN "failed" ELSE "completed", t, confidences) :
     t \in 0..MaxTimeSpent, confidences \in StoredConfidences}

ReduceInit ==
  /\ orchs = <<>>
  /\ event = Event("runParallel", 0, Pending, NoThrow)
  /\ \E n \in 0..MaxResults : \E results \in [1..n -> BatchResults] :
       batch = [NoBatch EXCEPT !.pc = "awaiting",
                               !.types = [i \in 1..n |-> "speed-led"],
                               !.analysis = RichAnalysis,
                               !.promises = [i \in 1..n |-> Resolved(results[i])]]
  /\ reentries = 0
  /\ collector = MetricsCollector(<<>>)

ReduceSpec == ReduceInit /\ [][AwaitAll]_vars

\* ------------------------------------------------------ a batch on its own
\* runParallelOrchestrators over its default list of types and over every
\* list of up to MaxBatch strategies, the phase continuations of its
\* orchestrators interleaved in every order.
MaxBatch == 2

DefaultTypes == << "developer-led", "speed-led", "research-led" >>

BatchLists == {DefaultTypes} \cup UNION {[1..n -> Strategies] : n \in 0..MaxBatch}

BatchInit ==
  /\ orchs = <<>>
  /\ event = Event("new", 0, Pending, NoThrow)
  /\ batch = NoBatch
  /\ reentries = 0
  /\ collector = MetricsCollector(<<>>)

BatchNext ==
  \/ \E types \in BatchLists, analysis \in {EmptyAnalysis, RichAnalysis} :
       RunParallel(types, analysis)
  \/ \E o \in DOMAIN orchs, l \in 1..MaxLoops :
       /\ l \in DOMAIN orchs[o].loops
       /\ PhaseFulfilled(o, l, 0)
  \/ AwaitAll

BatchSpec == BatchInit /\ [][BatchNext]_vars

MaxEvents == 3

\* What one run can report: in-range numbers, out-of-range numbers, a
\* confidence that is not a number, a missing timestamp.
Measurements ==
  { [timeSpentMs |-> 10, confidence |-> 80, recommendationsCount |-> 2,
     riskCount |-> 0, timestamp |-> TRUE],
    [timeSpentMs |-> 30, confidence |-> 60, recommendationsCount |-> 4,
     riskCount |-> 3, timestamp |-> TRUE],
    [timeSpentMs |-> 10, confidence |-> 70, recommendationsCount |-> 3,
     riskCount |-> 1, timestamp |-> TRUE],
    [timeSpentMs |-> -5, confidence |-> 150, recommendationsCount |-> -1,
     riskCount |-> -2, timestamp |-> TRUE],
    [timeSpentMs |-> 10, confidence |-> NaN, recommendationsCount |-> 4,
     riskCount |-> 0, timestamp |-> FALSE] }

MetricEvents ==
  { [orchestrator |-> name, timeSpentMs |-> m.timeSpentMs, confidence |-> m.confidence,
     recommendationsCount |-> m.recommendationsCount, riskCount |-> m.riskCount,
     timestamp |-> m.timestamp] : name \in Strategies, m \in Measurements }

Track(e) ==
  /\ Len(collector.events) < MaxEvents
  /\ collector' = [collector EXCEPT !.events = track(@, e)]
  /\ event' = Event("track", 0, Resolved(NoResult), NoThrow)
  /\ UNCHANGED <<orchs, batch, reentries>>

GetMetrics(orchestrator) ==
  /\ event' = Event("getMetrics", 0,
                    Resolved([orchestrator |-> orchestrator,
                              metrics |-> getMetrics(collector, orchestrator)]),
                    NoThrow)
  /\ UNCHANGED <<orchs, batch, reentries, collector>>

Compare ==
  /\ event' = Event("compare", 0, Resolved(compare(collector)), NoThrow)
  /\ UNCHANGED <<orchs, batch, reentries, collector>>

CollectorInit ==
  /\ orchs = <<>>
  /\ event = Event("new", 0, Pending, NoThrow)
  /\ batch = NoBatch
  /\ reentries = 0
  /\ \E initialEvents \in {<<>>} \cup {<< e >> : e \in MetricEvents} :
       collector = MetricsCollector(initialEvents)

CollectorNext ==
  \/ \E e \in MetricEvents : Track(e)
  \/ \E orchestrator \in Strategies \cup {Undefined} : GetMetrics(orchestrator)
  \/ Compare

CollectorSpec == CollectorInit /\ [][CollectorNext]_vars

\* ------------------------------------------------- the caller's input object
\* start stores the caller's AnalysisInput object itself (this.analysisSnapshot
\* = analysis), so what the caller writes to its object afterwards is what
\* the orchestrator holds.  Every run here is started on RichAnalysis, and
\* the caller may then empty the fields of that object.
ChangeInput(o) ==
  /\ batch.pc = "none"
  /\ orchs[o].analysisSnapshot = RichAnalysis
  /\ orchs' = [orchs EXCEPT ![o].analysisSnapshot = EmptyAnalysis]
  /\ event' = Event("changeInput", o, Resolved(NoResult), NoThrow)
  /\ UNCHANGED <<batch, reentries, collector>>

InputNext ==
  \/ \E o \in DOMAIN orchs : FirstStart(o, RichAnalysis)
  \/ \E o \in DOMAIN orchs : Pause(o)
  \/ \E o \in DOMAIN orchs : Resume(o)
  \/ \E o \in DOMAIN orchs, l \in 1..MaxLoops, durationMs \in LifecycleDurations :
       /\ l \in DOMAIN orchs[o].loops
       /\ PhaseFulfilled(o, l, durationMs)
  \/ \E o \in DOMAIN orchs : ChangeInput(o)

InputInit ==
  /\ orchs = << constructor(createOrchestratorConfig("speed-led")) >>
  /\ event = Event("new", 0, Pending, NoThrow)
  /\ batch = NoBatch
  /\ reentries = 0
  /\ collector = MetricsCollector(<<>>)

InputSpec == InputInit /\ [][InputNext]_vars

\* ------------------------------------------------- getStatus and aliasing
\* The objects reachable from WorkflowState: the state object, its two
\* arrays, metrics and its phaseTimings map, the phaseResults map, and each
\* PhaseResult entry with the lists it holds.
Containers ==
  {"state", "completedPhases", "pendingPhases", "metrics", "phaseTimings",
   "phaseResults", "phaseResult"}

\* getStatus: the snapshot has the content of WorkflowState; the spreads and
\* array copies make new objects of these containers, every other object of
\* the snapshot is the internal object itself.
getStatusCopies ==
  {"state", "completedPhases", "pendingPhases", "metrics", "phaseTimings",
   "phaseResults"}

getStatus(o) == o.workflowState

Tamper == Lit("tampered")

\* What a holder of a snapshot can do to it: the container written to, the
\* field or list, and for a PhaseResult the phase it belongs to.
Mutations(snapshot) ==
  [container : {"state"}, field : {"status"}, phase : {Null}]
    \cup [container : {"completedPhases", "pendingPhases"}, field : {"push"}, phase : {Null}]
    \cup [container : {"metrics"}, field : {"timeSpentMs"}, phase : {Null}]
    \cup [container : {"phaseTimings", "phaseResults"}, field : {"clear"}, phase : {Null}]
    \cup [container : {"phaseResult"}, field : {"insights", "recommendations", "risks"},
          phase : Range(Keys(snapshot.phaseResults))]

\* The write m applied to a WorkflowState content.
mutate(ws, m) ==
  CASE m.container = "state" -> [ws EXCEPT !.status = "idle"]
    [] m.container = "completedPhases" -> [ws EXCEPT !.completedPhases = Append(@, "tampered")]
    [] m.container = "pendingPhases" -> [ws EXCEPT !.pendingPhases = Append(@, "tampered")]
    [] m.container = "metrics" -> [ws EXCEPT !.metrics.timeSpentMs = @ + 1]
    [] m.container = "phaseTimings" -> [ws EXCEPT !.metrics.phaseTimings = <<>>]
    [] m.container = "phaseResults" -> [ws EXCEPT !.phaseResults = <<>>]
    [] m.container = "phaseResult" ->
         [ws EXCEPT !.phaseResults =
            Put(@, m.phase, [Get(@, m.phase) EXCEPT ![m.field] = Append(@, Tamper)])]

Tampered(ws) ==
  \E i \in 1..Len(ws.phaseResults) :
    \E field \in {"insights", "recommendations", "risks"} :
      Tamper \in Range(ws.phaseResults[i].value[field])

GetStatus(o) ==
  /\ orchs' = orchs
  /\ event' = Event("getStatus", o, Resolved(getStatus(orchs[o])), NoThrow)
  /\ UNCHANGED <<batch, reentries>>
  /\ UNCHANGED collector

\* The caller writes through the snapshot it has just received.  A write
\* to an object that getStatus did not copy is a write to the internal
\* object.  One write per snapshot, and one that reaches the internals per
\* behaviour.
Mutate(o) ==
  /\ event.op = "getStatus"
  /\ event.orch = o
  /\ ~Tampered(orchs[o].workflowState)
  /\ \E m \in Mutations(event.settle.result) :
       /\ orchs' = [orchs EXCEPT ![o].workflowState =
                       IF m.container \in getStatusCopies THEN @ ELSE mutate(@, m)]
       /\ event' = Event("mutate", o, Resolved(mutate(event.settle.result, m)), NoThrow)
  /\ UNCHANGED <<batch, reentries>>
  /\ UNCHANGED collector

SnapshotInit ==
  /\ orchs = << constructor(createOrchestratorConfig("speed-led")) >>
  /\ event = Event("new", 0, Pending, NoThrow)
  /\ batch = NoBatch
  /\ reentries = 0
  /\ collector = MetricsCollector(<<>>)

SnapshotNext ==
  \/ \E o \in DOMAIN orchs : FirstStart(o, RichAnalysis)
  \/ Returns
  \/ \E o \in DOMAIN orchs : GetStatus(o)
  \/ \E o \in DOMAIN orchs : Mutate(o)

SnapshotSpec == SnapshotInit /\ [][SnapshotNext]_vars


\* ------------------------------------------------------------ properties
Status(o) == orchs[o].workflowState.status
InFlight(o) == orchs[o].loops # <<>>

\* C1: an invalid lifecycle call (start while running, pause while not
\* running, resume while not paused) is rejected with its own error and
\* leaves the orchestrator (WorkflowState and analysis snapshot) as it was.
InvalidCallChangesNothing ==
  [][\A o \in DOMAIN orchs :
       event'.orch = o =>
         /\ (event'.op = "start" /\ Status(o) = "running")
              => (event'.settle = Rejected(AlreadyRunning) /\ orchs'[o] = orchs[o])
         /\ (event'.op = "pause" /\ Status(o) # "running")
              => (event'.settle = Rejected(CannotPause) /\ orchs'[o] = orchs[o])
         /\ (event'.op = "resume" /\ Status(o) # "paused")
              => (event'.settle = Rejected(CannotResume) /\ orchs'[o] = orchs[o])]_vars

\* C1 witness: pause() was refused on a paused run that has recorded a
\* phase and still has a phase in flight.
PauseRefusedWhilePaused ==
  /\ event.op = "pause"
  /\ event.settle = Rejected(CannotPause)
  /\ batch.pc = "none"
  /\ Status(1) = "paused"
  /\ InFlight(1)
  /\ orchs[1].workflowState.completedPhases # <<>>

ThrowEndsRunAtFailedPhase ==
  [][\A o \in DOMAIN orchs :
       event'.orch = o =>
         /\ (event'.op = "rejected" /\ event'.thrown.isError)
              => \E l \in DOMAIN orchs[o].loops :
                   LET k == orchs[o].loops[l].index
                       ws == orchs'[o].workflowState
                   IN /\ orchs'[o].loops = RemoveAt(orchs[o].loops, l)
                      /\ ws.status = "failed"
                      /\ ws.error = event'.thrown.message
                      /\ ws.completedPhases = SubSeq(orchs[o].phases, 1, k - 1)
                      /\ Keys(ws.phaseResults) = ws.completedPhases
                      /\ ws.currentPhase = orchs[o].phases[k]
                      /\ ws.pendingPhases =
                           SubSeq(orchs[o].phases, k + 1, Len(orchs[o].phases))
         /\ (Status(o) = "failed" /\ event'.op \in {"fulfilled", "rejected"})
              => /\ orchs'[o].invoked = orchs[o].invoked
                 /\ orchs'[o].workflowState.completedPhases =
                      orchs[o].workflowState.completedPhases]_vars

\* C4: a phase failure resolves the start or resume promise with a 'failed'
\* WorkflowResult that carries the results recorded before the failure; no
\* promise is ever rejected with a phase's error; and a batch with an
\* analysis and at least one type resolves with one result per type, in
\* order, whether or not some of its orchestrators failed.
PhaseFailureResolves ==
  [][/\ \A o \in DOMAIN orchs :
          (event'.op = "rejected" /\ event'.orch = o)
            => /\ event'.settle.kind = "resolved"
               /\ event'.settle.result.status = "failed"
               /\ event'.settle.result.phaseResults = orchs[o].workflowState.phaseResults
     /\ event'.settle.kind = "rejected"
          => event'.settle.error \in
               {AlreadyRunning, CannotPause, CannotResume, AnalysisRequired, ReduceOfEmpty}
     /\ batch'.pc = "resolved"
          => /\ Len(batch'.results) = Len(batch'.types)
             /\ \A i \in DOMAIN batch'.types :
                  batch'.results[i].orchestrator = batch'.types[i]
     /\ batch'.pc = "rejected"
          => (~batch'.analysis.present \/ batch'.types = <<>>)]_vars

\* C4 witness: a batch has resolved with a failed result that kept a phase
\* result next to a completed one.
BatchResolvedWithFailure ==
  /\ batch.pc = "resolved"
  /\ \E i, j \in DOMAIN batch.results :
       /\ batch.results[i].status = "failed"
       /\ batch.results[i].phaseResults # <<>>
       /\ batch.results[j].status = "completed"


Running(o) ==
  /\ o \in DOMAIN orchs
  /\ Status(o) = "running"
  /\ orchs[o].analysisSnapshot.present

CompletedInFull(o) ==
  /\ o \in DOMAIN orchs
  /\ Status(o) = "completed"
  /\ orchs[o].workflowState.completedPhases = orchs[o].phases
  /\ orchs[o].workflowState.currentPhase = Null
  /\ orchs[o].workflowState.pendingPhases = <<>>
  /\ orchs[o].workflowState.metrics.completedAt

\* C5: when the executors all return and pause() is never called, a run
\* that is running with an analysis eventually is 'completed' with
\* completedPhases the full phase list in order, currentPhase null,
\* pendingPhases empty and a completion timestamp; and every 'completed'
\* state has that shape.
StartedRunCompletes ==
  /\ Running(1) ~> CompletedInFull(1)
  /\ [](Status(1) = "completed" => CompletedInFull(1))

\* C5 witness: a run that was never paused has completed.
CompletedWithoutPause ==
  /\ CompletedInFull(1)
  /\ orchs[1].config.type = "research-led"
  /\ ~orchs[1].workflowState.metrics.pausedAt
  /\ event.op = "fulfilled"


\* The state in which a run of o's strategy on o's analysis ends when
\* nothing interrupts it.
RECURSIVE runToEnd(_)
runToEnd(o) ==
  IF o.loops = <<>> THEN o
  ELSE runToEnd(phaseFulfilled(o, 1, awaited(o, 1), MaxDuration).o)

Uninterrupted(o) == runToEnd(start(constructor(o.config), o.analysisSnapshot).o)

\* The content of phaseResults: everything but the measured durations.
Content(phaseResults) ==
  [i \in 1..Len(phaseResults) |->
     [key |-> phaseResults[i].key,
      value |-> [phaseResults[i].value EXCEPT !.durationMs = 0]]]

\* C6 as stated: a run that was paused and resumed (and never restarted
\* with start) ends 'completed' in the state of the uninterrupted run: the
\* same completedPhases, the same phaseResults content, and a timeSpentMs
\* that covers the recorded phase timings.
PauseResumeEndsAsUninterrupted ==
  \A o \in DOMAIN orchs :
    LET ws == orchs[o].workflowState
    IN (ws.status = "completed" /\ ws.metrics.pausedAt /\ ~orchs[o].restarted)
         => /\ ws.completedPhases = Uninterrupted(orchs[o]).workflowState.completedPhases
            /\ Content(ws.phaseResults) =
                 Content(Uninterrupted(orchs[o]).workflowState.phaseResults)
            /\ ws.metrics.timeSpentMs >= SumSeq(Values(ws.metrics.phaseTimings))

\* C7 as stated: while pause() holds (it succeeded and no start() or
\* resume() was accepted since), a phase in flight that returns is recorded
\* and appended to completedPhases, its promise resolves with status
\* 'paused', and no executor is invoked.
PauseHoldsBackLaterPhases ==
  [][\A o \in DOMAIN orchs :
       (event'.orch = o /\ orchs[o].pauseHeld)
         => /\ event'.op = "fulfilled"
                 => \E l \in DOMAIN orchs[o].loops :
                      LET phase == orchs[o].phases[orchs[o].loops[l].index]
                      IN /\ orchs'[o].loops = RemoveAt(orchs[o].loops, l)
                         /\ orchs'[o].workflowState.completedPhases =
                              Append(orchs[o].workflowState.completedPhases, phase)
                         /\ HasKey(orchs'[o].workflowState.phaseResults, phase)
                         /\ event'.settle.kind = "resolved"
                         /\ event'.settle.result.status = "paused"
            /\ event'.op \in {"fulfilled", "rejected"}
                 => orchs'[o].invoked = orchs[o].invoked]_vars

Count(x, list) == Cardinality({i \in 1..Len(list) : list[i] = x})

\* C8 as stated: start() on a 'completed' or 'failed' run begins the new run
\* from the reset state (nothing completed, no results, no time, no
\* timings, no completion or pause timestamp, no error, every phase current
\* or pending), and from then on the run records only phases whose executor
\* was invoked since that reset.
RestartRunsOnResetState ==
  [][\A o \in DOMAIN orchs :
       event'.orch = o =>
         LET ws == orchs'[o].workflowState
         IN /\ (event'.op = "start" /\ Status(o) \in {"completed", "failed"})
                 => /\ ws.completedPhases = <<>>
                    /\ ws.phaseResults = <<>>
                    /\ ws.metrics.timeSpentMs = 0
                    /\ ws.metrics.phaseTimings = <<>>
                    /\ ~ws.metrics.completedAt
                    /\ ~ws.metrics.pausedAt
                    /\ ws.error = Undefined
                    /\ (IF ws.currentPhase = Null THEN <<>> ELSE <<ws.currentPhase>>)
                         \o ws.pendingPhases = orchs[o].phases
            /\ \A i \in 1..Len(orchs[o].phases) :
                 /\ Count(orchs[o].phases[i], ws.completedPhases) <= orchs'[o].invoked[i]
                 /\ HasKey(ws.phaseResults, orchs[o].phases[i])
                      => orchs'[o].invoked[i] > 0]_vars

\* C9 as stated: every confidence stored in a PhaseResult is within [0,1]
\* (0..100 hundredths), for each strategy, phase and analysis.
ConfidenceWithinUnitInterval ==
  \A o \in DOMAIN orchs :
    \A i \in 1..Len(orchs[o].workflowState.phaseResults) :
      /\ orchs[o].workflowState.phaseResults[i].value.confidence >= 0
      /\ orchs[o].workflowState.phaseResults[i].value.confidence <= 100

\* C10 as stated: in every observable state, completedPhases.length plus one
\* for a set currentPhase plus pendingPhases.length is the number of phases.
PhaseCountEquation ==
  \A o \in DOMAIN orchs :
    LET ws == orchs[o].workflowState
    IN Len(ws.completedPhases) + (IF ws.currentPhase = Null THEN 0 ELSE 1)
         + Len(ws.pendingPhases) = Len(orchs[o].phases)


\* C11 as stated: whenever the status is 'running', completedPhases followed
\* by currentPhase followed by pendingPhases is the phase list in declared
\* order (so pendingPhases is the suffix not yet started).
RunningPartitionsPhaseList ==
  \A o \in DOMAIN orchs :
    LET ws == orchs[o].workflowState
    IN ws.status = "running"
         => ws.completedPhases
              \o (IF ws.currentPhase = Null THEN <<>> ELSE <<ws.currentPhase>>)
              \o ws.pendingPhases = orchs[o].phases


\* C12 as stated: a write through a snapshot returned by getStatus() changes
\* neither the internal WorkflowState, nor what a later getStatus() returns,
\* nor a later WorkflowResult.
SnapshotWritesStayOutside ==
  [][\A o \in DOMAIN orchs :
       (event'.op = "mutate" /\ event'.orch = o)
         => /\ orchs'[o].workflowState = orchs[o].workflowState
            /\ getStatus(orchs'[o]) = getStatus(orchs[o])
            /\ buildResult(orchs'[o]) = buildResult(orchs[o])]_vars


\* The WorkflowResult a settled call has produced, if any.
ResultOps == {"start", "resume", "fulfilled", "rejected"}
HasResult == event.op \in ResultOps /\ event.settle.kind = "resolved"

Flattened(result, key) ==
  FlatMap([i \in 1..Len(result.phaseResults) |-> result.phaseResults[i].value[key]])

FirstIndex(list, x) == CHOOSE i \in 1..Len(list) :
                         list[i] = x /\ \A j \in 1..(i - 1) : list[j] # x

DistinctInFirstOccurrenceOrder(list, flat) ==
  /\ \A i, j \in 1..Len(list) : list[i] = list[j] => i = j
  /\ Range(list) = Range(flat)
  /\ \A i, j \in 1..Len(list) :
       i < j => FirstIndex(flat, list[i]) < FirstIndex(flat, list[j])

\* C13: in every WorkflowResult (completed, paused or failed) recommendations
\* and risks hold no string twice, and each is exactly the distinct strings
\* of the stored phase results in the order of their first occurrence when
\* the phase results are flattened in phase order.
ResultListsAreDistinctInOrder ==
  HasResult =>
    /\ event.settle.result.status \in {"completed", "paused", "failed"}
    /\ \A key \in {"recommendations", "risks"} :
         DistinctInFirstOccurrenceOrder(event.settle.result[key],
                                        Flattened(event.settle.result, key))

\* C13 witness: a result whose phases produced the same recommendation twice.
DuplicateRecommendationDropped ==
  /\ HasResult
  /\ Len(Flattened(event.settle.result, "recommendations"))
       > Len(event.settle.result.recommendations)
  /\ Len(event.settle.result.recommendations) > 1


\* C14: 'fastest' is one of the returned results and no result of the batch
\* has a strictly smaller metrics.timeSpentMs.
FastestHasMinimumTime ==
  batch.pc = "resolved" =>
    /\ batch.fastest \in Range(batch.results)
    /\ \A i \in 1..Len(batch.results) :
         batch.results[i].metrics.timeSpentMs >= batch.fastest.metrics.timeSpentMs

\* C14 witness: three results, the second strictly faster than both others.
FastestInTheMiddle ==
  /\ batch.pc = "resolved"
  /\ Len(batch.results) = 3
  /\ batch.results[2].metrics.timeSpentMs < batch.results[1].metrics.timeSpentMs
  /\ batch.results[2].metrics.timeSpentMs < batch.results[3].metrics.timeSpentMs
  /\ batch.fastest = batch.results[2]

\* The mean per-phase confidence of a result as a fraction, a result with no
\* phase results counting as 0.
MeanNum(result) == IF Len(result.phaseResults) = 0 THEN 0 ELSE confidenceSum(result)
MeanDen(result) == IF Len(result.phaseResults) = 0 THEN 1 ELSE Len(result.phaseResults)
MeanAtLeast(a, b) == MeanNum(a) * MeanDen(b) >= MeanNum(b) * MeanDen(a)

\* C15 as stated: 'mostConfident' is a result whose mean per-phase confidence
\* is the highest of the batch, a result with zero phase results counting as
\* 0; so a zero-phase result is not selected when another result has a
\* positive mean.
MostConfidentHasHighestMean ==
  batch.pc = "resolved" =>
    /\ batch.mostConfident \in Range(batch.results)
    /\ \A i \in 1..Len(batch.results) :
         MeanAtLeast(batch.mostConfident, batch.results[i])


EventsOf(s) == SelectSeq(collector.events, LAMBDA e : e.orchestrator = s)

Sum(events, field) == SumSeq([i \in 1..Len(events) |-> events[i][field]])

\* m is the quotient total / runs.
IsQuotient(m, total, runs) == m[2] > 0 /\ m[1] * runs = total * m[2]

AggregatesEventsOf(m, s) ==
  LET own == EventsOf(s)
  IN /\ m.orchestrator = s
     /\ m.runs = Len(own)
     /\ m.totalTimeMs = Sum(own, "timeSpentMs")
     /\ IsQuotient(m.averageTimeMs, m.totalTimeMs, m.runs)
     /\ IsQuotient(m.averageConfidence, Sum(own, "confidence"), m.runs)
     /\ m.totalRecommendations = Sum(own, "recommendationsCount")
     /\ IsQuotient(m.averageRecommendations, m.totalRecommendations, m.runs)
     /\ m.totalRisks = Sum(own, "riskCount")
     /\ IsQuotient(m.averageRisks, m.totalRisks, m.runs)
     /\ << m >> = getMetrics([events |-> own], s)

\* C16: getMetrics(s) reports for strategy s the number of its recorded
\* events as runs, the sums of their times and counts as totals, and
\* total / runs as averages (the mean of their confidences included); the
\* aggregate is the one of the events of s alone, whatever events of other
\* strategies were recorded in between.
MetricsAggregateOwnEvents ==
  event.op = "getMetrics" =>
    LET asked == event.settle.result.orchestrator
        metrics == event.settle.result.metrics
    IN /\ \A i \in 1..Len(metrics) : AggregatesEventsOf(metrics[i], metrics[i].orchestrator)
       /\ \A s \in Strategies :
            (asked \in {s, Undefined} /\ EventsOf(s) # <<>>)
              => \E i \in 1..Len(metrics) : metrics[i].orchestrator = s
       /\ \A i, j \in 1..Len(metrics) : metrics[i].orchestrator = metrics[j].orchestrator => i = j
       /\ \A i \in 1..Len(metrics) : asked \in {metrics[i].orchestrator, Undefined}

\* C16 witness: two runs of one strategy with a run of another recorded in
\* between: 10 and 30 time units, confidences 0.8 and 0.6.
TwoRunsAveraged ==
  /\ event.op = "getMetrics"
  /\ event.settle.result.orchestrator = "speed-led"
  /\ Len(collector.events) = 3
  /\ collector.events[2].orchestrator # "speed-led"
  /\ Len(event.settle.result.metrics) = 1
  /\ event.settle.result.metrics[1].runs = 2
  /\ event.settle.result.metrics[1].totalTimeMs = 40
  /\ event.settle.result.metrics[1].averageTimeMs = Whole(20)
  /\ event.settle.result.metrics[1].averageConfidence = Whole(70)


\* The value of a strategy on one criterion, normalized over the compared
\* strategies: 1 when they all have the same value, otherwise its place
\* between the minimum (0) and the maximum (1), turned around when lower
\* is better.
Normalized(workflows, i, field, lowerIsBetter) ==
  LET values == {workflows[j][field] : j \in 1..Len(workflows)}
      lo == CHOOSE v \in values : \A w \in values : ~FracLess(w, v)
      hi == CHOOSE v \in values : \A w \in values : ~FracLess(v, w)
      place == FracDiv(FracSub(workflows[i][field], lo), FracSub(hi, lo))
  IN IF lo = hi THEN Whole(1)
     ELSE IF lowerIsBetter THEN FracSub(Whole(1), place) ELSE place

InUnitInterval(x) == ~FracLess(x, Whole(0)) /\ ~FracLess(Whole(1), x)

\* 10 * score = 4 c + 3 r + 2 t + 1 k.
WeightedSum(c, r, t, k) ==
  FracAdd(FracAdd(FracMul(Whole(4), c), FracMul(Whole(3), r)),
          FracAdd(FracMul(Whole(2), t), k))

\* C17: the score of each compared strategy is 0.4 c + 0.3 r + 0.2 t + 0.1 k
\* with c and r its average confidence and recommendations normalized to
\* [0,1] over the compared strategies, t and k its average time and risks
\* normalized and inverted; a criterion on which all strategies agree gives
\* 1.0 to each of them.
ScoreIsWeightedSum ==
  event.op = "compare" =>
    LET workflows == getMetrics(collector, Undefined)
        rankings == event.settle.result.rankings
    IN \A n \in 1..Len(rankings) :
         \E i \in 1..Len(workflows) :
           /\ rankings[n].metrics = workflows[i]
           /\ rankings[n].orchestrator = workflows[i].orchestrator
           /\ LET c == Normalized(workflows, i, "averageConfidence", FALSE)
                  r == Normalized(workflows, i, "averageRecommendations", FALSE)
                  t == Normalized(workflows, i, "averageTimeMs", TRUE)
                  k == Normalized(workflows, i, "averageRisks", TRUE)
              IN /\ \A x \in {c, r, t, k} : InUnitInterval(x)
                 /\ FracMul(Whole(10), rankings[n].score) = WeightedSum(c, r, t, k)

\* C17 witness: three strategies with the same average time, one of them
\* strictly between the others in confidence.
SameTimeForAll ==
  /\ event.op = "compare"
  /\ Len(event.settle.result.rankings) = 3
  /\ \A n \in 1..3 :
       event.settle.result.rankings[n].metrics.averageTimeMs = Whole(10)
  /\ \E n \in 1..3 :
       LET workflows == getMetrics(collector, Undefined)
           i == CHOOSE j \in 1..3 :
                  workflows[j] = event.settle.result.rankings[n].metrics
           c == Normalized(workflows, i, "averageConfidence", FALSE)
       IN FracLess(Whole(0), c) /\ FracLess(c, Whole(1))


\* C18: rankings is a permutation of the compared strategies in descending
\* order of score, winner is the strategy of the first entry (so no compared
\* strategy has a strictly higher score), and winner is null and rankings
\* empty exactly when there is nothing to compare, in which case a result is
\* returned all the same.
RankingsSortedWinnerFirst ==
  event.op = "compare" =>
    LET workflows == getMetrics(collector, Undefined)
        result == event.settle.result
        rankings == result.rankings
    IN /\ event.settle.kind = "resolved"
       /\ ~event.thrown.thrown
       /\ Len(rankings) = Len(workflows)
       /\ \A i \in 1..Len(workflows) :
            Cardinality({n \in 1..Len(rankings) : rankings[n].metrics = workflows[i]}) = 1
       /\ \A n, m \in 1..Len(rankings) :
            n < m => ~FracLess(rankings[n].score, rankings[m].score)
       /\ (workflows = <<>>) <=> (result.winner = Null)
       /\ (workflows = <<>>) <=> (rankings = <<>>)
       /\ workflows # <<>> =>
            /\ result.winner = rankings[1].orchestrator
            /\ \A n \in 1..Len(rankings) :
                 rankings[n].orchestrator = result.winner
                   => \A m \in 1..Len(rankings) :
                        ~FracLess(rankings[n].score, rankings[m].score)

\* C18 witness: three strategies with three different scores, the one
\* recorded last wins and the one recorded first comes last.
LastRecordedWins ==
  /\ event.op = "compare"
  /\ Len(event.settle.result.rankings) = 3
  /\ event.settle.result.winner = collector.events[3].orchestrator
  /\ event.settle.result.rankings[3].orchestrator = collector.events[1].orchestrator
  /\ FracLess(event.settle.result.rankings[2].score, event.settle.result.rankings[1].score)
  /\ FracLess(event.settle.result.rankings[3].score, event.settle.result.rankings[2].score)

\* The comparison of an empty collector.
NothingToCompare ==
  /\ event.op = "compare"
  /\ collector.events = <<>>
  /\ event.settle.result.winner = Null


\* C19 as stated: a start() or resume() that passes its status guard with no
\* analysis snapshot stored is signalled as an error and the run does not
\* proceed: no phase executor is invoked and completedPhases and phaseResults
\* are unchanged.
MissingAnalysisChangesNothing ==
  [][\A o \in DOMAIN orchs :
       (/\ event'.op \in {"start", "resume"}
        /\ event'.orch = o
        /\ event'.settle \notin {Rejected(AlreadyRunning), Rejected(CannotResume)}
        /\ ~orchs'[o].analysisSnapshot.present)
         => /\ event'.settle = Rejected(AnalysisRequired)
            /\ Len(orchs'[o].loops) = Len(orchs[o].loops)
            /\ \A i \in DOMAIN orchs[o].invoked : orchs'[o].invoked[i] <= orchs[o].invoked[i]
            /\ orchs'[o].workflowState.completedPhases
                 = orchs[o].workflowState.completedPhases
            /\ orchs'[o].workflowState.phaseResults
                 = orchs[o].workflowState.phaseResults]_vars


\* An orchestrator state or a result without its wall-clock values.
WithoutClock(x) ==
  [x EXCEPT !.metrics.timeSpentMs = 0,
            !.metrics.phaseTimings = [i \in 1..Len(@) |-> [@[i] EXCEPT !.value = 0]],
            !.phaseResults = Content(@)]

\* The states an orchestrator goes through when it runs alone.
RECURSIVE aloneFrom(_)
aloneFrom(o) ==
  IF o.loops = <<>> THEN << o >>
  ELSE << o >> \o aloneFrom(phaseFulfilled(o, 1, awaited(o, 1), MaxDuration).o)

Alone(type, analysis) ==
  aloneFrom(start(constructor(createOrchestratorConfig(type)), analysis).o)

\* C20: under every interleaving of the phase steps of a batch, each
\* orchestrator is in a state of its run alone on the same analysis (wall
\* clock apart), at the end its WorkflowState and WorkflowResult are those
\* of the run alone, and the analysis every orchestrator holds is the
\* content handed to the batch.
BatchMembersRunAsAlone ==
  batch.pc \in {"awaiting", "resolved"} =>
    \A i \in DOMAIN orchs :
      LET alone == Alone(batch.types[i], batch.analysis)
          final == alone[Len(alone)]
      IN /\ orchs[i].config.type = batch.types[i]
         /\ orchs[i].analysisSnapshot = batch.analysis
         /\ \E k \in 1..Len(alone) :
              /\ WithoutClock(orchs[i].workflowState) = WithoutClock(alone[k].workflowState)
              /\ orchs[i].invoked = alone[k].invoked
         /\ batch.pc = "resolved" =>
              /\ WithoutClock(orchs[i].workflowState) = WithoutClock(final.workflowState)
              /\ WithoutClock(batch.results[i]) = WithoutClock(buildResult(final))

\* C20 witness: the batch of the three strategies has resolved with every
\* run completed, the orchestrator started first having finished last.
ThreeStrategiesResolved ==
  /\ batch.pc = "resolved"
  /\ batch.types = DefaultTypes
  /\ \A i \in 1..3 : orchs[i].workflowState.status = "completed"
  /\ event.op = "awaitAll"


\* C21 as stated: within one run every phase executor is invoked at most
\* once, completedPhases is a duplicate-free prefix of the phase list, and
\* the keys of phaseResults are exactly the names in completedPhases.
EachPhaseOncePrefixCompleted ==
  \A o \in DOMAIN orchs :
    LET ws == orchs[o].workflowState
    IN /\ \A i \in DOMAIN orchs[o].invoked : orchs[o].invoked[i] <= 1
       /\ Len(ws.completedPhases) <= Len(orchs[o].phases)
       /\ ws.completedPhases = Take(orchs[o].phases, Len(ws.completedPhases))
       /\ Range(Keys(ws.phaseResults)) = Range(ws.completedPhases)


\* C22 as stated, for runs that are all started on RichAnalysis: every
\* stored phase result is the one computed from the content the analysis had
\* when the run was started, whatever the caller did to its input object
\* afterwards and whatever was called while the run was paused.
PhasesSeeContentAtStart ==
  \A o \in DOMAIN orchs :
    LET results == orchs[o].workflowState.phaseResults
    IN \A i \in 1..Len(results) :
         LET atStart == executePhase(orchs[o].config, results[i].key, RichAnalysis)
         IN /\ results[i].value.insights = atStart.insights
            /\ results[i].value.recommendations = atStart.recommendations
            /\ results[i].value.risks = atStart.risks
            /\ results[i].value.confidence = atStart.confidence


\* The six fields the confidence is said to depend on.
StatedInformativeFields ==
  <<"opportunities", "risks", "monetizationIdeas", "techStack", "competitors",
    "audience">>

\* min(1, (s / 6) * weight + 0.35) rounded to two decimals, in hundredths,
\* with s (in halves) taken over the stated fields.
StatedConfidence(analysis, weight) ==
  LET halves == SumSeq([i \in 1..Len(StatedInformativeFields) |->
                          SignalHalves(analysis.fields[StatedInformativeFields[i]])])
  IN (Min(1200, halves * weight + 420) + 6) \div 12

\* C23 as stated, on the phase that stores deriveConfidence(analysis, 0.75)
\* unchanged (speed-led quick-assessment): the stored confidence is
\* min(1, (s / 6) * 0.75 + 0.35) rounded to two decimals, s being the sum over
\* opportunities, risks, monetizationIdeas, techStack, competitors and
\* audience.
ConfidenceFromStatedFields ==
  \A o \in DOMAIN orchs :
    (orchs[o].config.type = "speed-led"
       /\ HasKey(orchs[o].workflowState.phaseResults, "quick-assessment"))
      => Get(orchs[o].workflowState.phaseResults, "quick-assessment").confidence
           = StatedConfidence(orchs[o].analysisSnapshot, 75)


\* C24 as stated: whenever a run is in status 'failed' the stored error is a
\* non-empty message.
FailedRunHasMessage ==
  \A o \in DOMAIN orchs :
    Status(o) = "failed" => Truthy(orchs[o].workflowState.error)

\* The three forms of a summary.
FailedSummary(o) ==
  o.config.projectName \o Lit(": workflow failed after ")
    \o Num(Len(o.workflowState.completedPhases)) \o Lit(" phase(s) - ")
    \o Lit(o.workflowState.error)

PausedSummary(o) ==
  o.config.projectName \o Lit(": paused after ")
    \o Num(Len(o.workflowState.completedPhases)) \o Lit(" phase(s)")

IsRecommendationSummary(o, result) ==
  result.summary = summaryFromRecommendations(o.config, result.recommendations)

\* C25 as stated: a 'failed' result has the summary with the number of
\* completed phases and the stored error message, a 'paused' result the one
\* with the number of phases completed so far, and only a 'completed'
\* result has the recommendation-based summary.
SummaryFollowsStatus ==
  HasResult =>
    LET o == orchs[event.orch]
        result == event.settle.result
    IN /\ result.status = "failed" => result.summary = FailedSummary(o)
       /\ result.status = "paused" => result.summary = PausedSummary(o)
       /\ IsRecommendationSummary(o, result) => result.status = "completed"


NonNegative(x) == ~FracLess(x, Whole(0))

StoredInRange(e) ==
  /\ e.timeSpentMs >= 0
  /\ e.confidence >= 0 /\ e.confidence <= 100
  /\ e.recommendationsCount >= 0
  /\ e.riskCount >= 0
  /\ e.timestamp

MetricsInRange(m) ==
  /\ NonNegative(m.averageConfidence) /\ ~FracLess(Whole(100), m.averageConfidence)
  /\ m.runs >= 0 /\ m.totalTimeMs >= 0 /\ m.totalRecommendations >= 0 /\ m.totalRisks >= 0
  /\ NonNegative(m.averageTimeMs)
  /\ NonNegative(m.averageRecommendations)
  /\ NonNegative(m.averageRisks)

CollectorInRange ==
  /\ \A i \in 1..Len(collector.events) : StoredInRange(collector.events[i])
  /\ event.op = "getMetrics" =>
       \A i \in 1..Len(event.settle.result.metrics) :
         MetricsInRange(event.settle.result.metrics[i])

AtMostOneLoop ==
  \A o \in DOMAIN orchs : Len(orchs[o].loops) <= 1

\* C28 as stated: an orchestrator is never in status 'running' with no
\* phase-execution loop active; in particular not after a start() or
\* resume() call that was rejected.
RunningHasLoop ==
  \A o \in DOMAIN orchs : Status(o) = "running" => InFlight(o)


\* C29 as stated: in every state metrics.timeSpentMs is the sum of the
\* values of metrics.phaseTimings and the sum of durationMs over the entries
\* of phaseResults, and phaseTimings has the keys of phaseResults.
TimeSpentIsSumOfTimings ==
  \A o \in DOMAIN orchs :
    LET ws == orchs[o].workflowState
        timings == Values(ws.metrics.phaseTimings)
        results == Values(ws.phaseResults)
    IN /\ ws.metrics.timeSpentMs = SumSeq(timings)
       /\ ws.metrics.timeSpentMs = SumSeq([i \in 1..Len(results) |-> results[i].durationMs])
       /\ Range(Keys(ws.metrics.phaseTimings)) = Range(Keys(ws.phaseResults))


AllPhasesCompleted(o) ==
  Range(o.workflowState.completedPhases) = Range(o.phases)

\* The last phase of the list is in flight.
LastPhaseInFlight(o) ==
  \E l \in DOMAIN o.loops : o.loops[l].index = Len(o.phases)

\* C30: when pause() was called while the last phase was in flight, the
\* return of that phase leaves the run 'paused' with every phase in
\* completedPhases, pendingPhases empty and no completion timestamp; a
\* resume() of that state moves it to 'completed' without invoking an
\* executor and without changing phaseResults.
PauseDuringLastPhase ==
  [][\A o \in DOMAIN orchs :
       /\ (/\ Status(o) = "paused"
           /\ event'.op = "fulfilled" /\ event'.orch = o
           /\ \E l \in DOMAIN orchs[o].loops :
                /\ orchs[o].loops[l].index = Len(orchs[o].phases)
                /\ orchs'[o].loops = RemoveAt(orchs[o].loops, l))
            => /\ orchs'[o].workflowState.status = "paused"
               /\ AllPhasesCompleted(orchs'[o])
               /\ orchs'[o].workflowState.pendingPhases = <<>>
               /\ ~orchs'[o].workflowState.metrics.completedAt
               /\ event'.settle.kind = "resolved"
               /\ event'.settle.result.status = "paused"
       /\ (/\ Status(o) = "paused"
           /\ AllPhasesCompleted(orchs[o])
           /\ ~InFlight(o)
           /\ event'.op = "resume" /\ event'.orch = o)
            => /\ orchs'[o].workflowState.status = "completed"
               /\ orchs'[o].invoked = orchs[o].invoked
               /\ orchs'[o].workflowState.phaseResults
                    = orchs[o].workflowState.phaseResults
               /\ event'.settle.kind = "resolved"
               /\ event'.settle.result.status = "completed"]_vars

\* The ordinary case: a run paused during its last phase has been resumed
\* and is completed, every executor having been invoked once.
ResumedAfterLastPhase ==
  /\ event.op = "resume"
  /\ event.orch \in DOMAIN orchs
  /\ orchs[event.orch].workflowState.status = "completed"
  /\ orchs[event.orch].workflowState.completedPhases = orchs[event.orch].phases
  /\ \A i \in DOMAIN orchs[event.orch].invoked : orchs[event.orch].invoked[i] = 1
  /\ event.settle.kind = "resolved"

====
